---- MODULE Spec2Model ----
(***************************************************************************)
(* Model of systemd's gpt-auto-generator                                   *)
(* (src/gpt-auto-generator/gpt-auto-generator.c).                          *)
(*                                                                         *)
(* One generation pass: main() parses the kernel command line, optionally  *)
(* emits the root mount, then enumerate_partitions() scans the sibling     *)
(* partitions of the root disk, activates every swap partition it meets    *)
(* and remembers one ESP, one /home and one /srv partition, which are      *)
(* turned into unit files and symlinks in the generator directory.         *)
(*                                                                         *)
(* The generator directory is the variable files: a function from artifact *)
(* names (sequences of strings, relative to arg_dest) to contents.         *)
(***************************************************************************)
EXTENDS Integers, Sequences, FiniteSets, TLC

\* ------------------------------------------------------------------ bounds

\* Partition numbers on the disk are drawn from 1..MaxNr.
MaxNr == 3
\* Number of handler invocations in one pass in which an I/O call may fail.
MaxFaults == 1
\* Number of artifacts that may already exist in the generator directory.
MaxPre == 1
\* The longest kernel command line, in items.
MaxItems == 3
\* The largest argc tried.
MaxArgc == 5

\* ------------------------------------------------------------------ errno

EIO == 5
ENOENT == 2
ENOMEM == 12
EEXIST == 17
EINVAL == 22

EXIT_SUCCESS == 0
EXIT_FAILURE == 1

\* ------------------------------------------------------------------ GPT

GPT_SWAP == "swap"
GPT_ESP == "esp"
GPT_HOME == "home"
GPT_SRV == "srv"

\* Besides the four known GUIDs blkid can report some other GUID, "other",
\* and a string sd_id128_from_string() rejects, "garbage".

\* ------------------------------------------------------------------ names

SPECIAL_LOCAL_FS_TARGET == <<"local-fs", ".target">>
SPECIAL_INITRD_ROOT_FS_TARGET == <<"initrd-root-fs", ".target">>
SPECIAL_SWAP_TARGET == <<"swap", ".target">>

\* A NULL pointer where a path or a unit name is expected, and where a plain
\* string (a filesystem type, a UUID) is expected.
NULL == <<>>
NULLSTR == "(null)"

\* Paths are sequences of components: "/" is <<>>, "/dev/sda2" is
\* <<"dev", "sda2">>.
DevNode(nr) == <<"dev", "sda" \o ToString(nr)>>

\* unit_name_from_path(): the components joined by dashes, "/" becoming "-",
\* followed by the suffix.
unit_name_from_path(path, suffix) ==
    (IF path = <<>> THEN <<"-">> ELSE path) \o <<suffix>>

\* unit_name_build(prefix, instance, suffix): prefix@instance.suffix
unit_name_build(prefix, instance, suffix) ==
    <<prefix, "@", instance, suffix>>

\* ------------------------------------------------------------------ files

\* The content of an artifact.  kind is "mount", "automount", "swap",
\* "cryptsetup" (a unit file), "dropin" (the device property override),
\* "link" (a symlink) or "foreign" (written by somebody else).  complete is
\* FALSE for a file that was created but whose content was not flushed.
Blank ==
    [kind |-> "foreign", what |-> NULL, where |-> NULL, fstype |-> NULLSTR,
     options |-> <<>>, before |-> NULL, timeout |-> -1, target |-> NULL,
     description |-> "", complete |-> TRUE]

Foreign == Blank

Link(target) == [Blank EXCEPT !.kind = "link", !.target = target]

\* A file right after fopen(p, "wxe") succeeded: present, nothing flushed.
Partial(kind) == [Blank EXCEPT !.kind = kind, !.complete = FALSE]

Exists(fs, name) == name \in DOMAIN fs

\* Create or replace the artifact name.
Put(fs, name, content) ==
    [n \in DOMAIN fs \cup {name} |-> IF n = name THEN content ELSE fs[n]]

\* The result of an emitting function: the directory afterwards and the
\* return value (0 or a negative errno).
\* att says whether descriptor emission (add_mount, add_swap's unit file)
\* was attempted, crash whether the process died inside the call.
Ret(fs, r) == [fs |-> fs, r |-> r, att |-> FALSE, crash |-> FALSE]
Attempted(res) == [res EXCEPT !.att = TRUE]
Crash(fs) == [fs |-> fs, r |-> 0, att |-> FALSE, crash |-> TRUE]

\* if (r < 0) return r;  -- otherwise go on with the directory as res left it
Then(res, Rest(_)) == IF res.r < 0 THEN res ELSE Rest(res.fs)

\* Variant: the file is opened with "we": an existing file is truncated.
WriteExcl_not_exclusive(fs, p, content, openflt, flushflt) ==
    IF openflt THEN Ret(fs, -EIO)
    ELSE IF flushflt THEN Ret(Put(fs, p, Partial(content.kind)), -EIO)
    ELSE Ret(Put(fs, p, content), 0)

\* Variant: the result of fflush_and_check() is not looked at.
WriteExcl_flush_unchecked(fs, p, content, openflt, flushflt) ==
    IF Exists(fs, p) THEN Ret(fs, -EEXIST)
    ELSE IF openflt THEN Ret(fs, -EIO)
    ELSE IF flushflt THEN Ret(Put(fs, p, Partial(content.kind)), 0)
    ELSE Ret(Put(fs, p, content), 0)

\* fopen(p, "wxe") followed by the fprintf()s and fflush_and_check(): the x
\* makes the open fail when p exists.  openflt and flushflt say whether the
\* environment makes the open or the flush fail.
WriteExcl(fs, p, content, openflt, flushflt) ==
    IF Exists(fs, p) THEN Ret(fs, -EEXIST)
    ELSE IF openflt THEN Ret(fs, -EIO)
    ELSE IF flushflt THEN Ret(Put(fs, p, Partial(content.kind)), -EIO)
    ELSE Ret(Put(fs, p, content), 0)

\* symlink(from, to): fails with EEXIST when to exists.
Symlink(fs, from, to, flt) ==
    IF Exists(fs, to) THEN Ret(fs, -EEXIST)
    ELSE IF flt THEN Ret(fs, -EIO)
    ELSE Ret(Put(fs, to, Link(from)), 0)

\* write_string_file(p, s, WRITE_STRING_FILE_CREATE): creates the file or
\* truncates the existing one, then writes s.
write_string_file(fs, p, content, openflt, writeflt) ==
    IF openflt THEN Ret(fs, -EIO)
    ELSE IF writeflt THEN Ret(Put(fs, p, Partial(content.kind)), -EIO)
    ELSE Ret(Put(fs, p, content), 0)

\* ------------------------------------------------------------------ emitters

\* The places where an I/O call of a handler can fail for a reason other than
\* a name collision.  A handler returns at its first failure, so one
\* invocation meets at most one of them.
CryptFaults == {"crypt_open", "crypt_flush", "crypt_wants", "crypt_target",
                "crypt_mapper", "crypt_dropin_open", "crypt_dropin_write"}
MountFaults == {"mount_open", "mount_fsck", "mount_flush", "mount_symlink"}
AutomountFaults == {"auto_open", "auto_flush", "auto_symlink"}
SwapFaults == {"swap_open", "swap_flush", "swap_symlink"}
ProbeFaults == {"probe_open"}

CryptsetupUnit(id) == unit_name_build("systemd-cryptsetup", id, ".service")
MapperDevice(id) == <<"dev", "mapper", id>>
DropinName(id) ==
    <<"dev-mapper-", id, ".device", ".d", "50-job-timeout-sec-0.conf">>
DropinContent == [Blank EXCEPT !.kind = "dropin", !.timeout = 0]

\* add_cryptsetup(id, what, rw, &device): r and, on success, the mapped
\* device.
add_cryptsetup(fs, id, what, rw, flt) ==
    LET d == unit_name_from_path(what, ".device")
        e == id
        n == unit_name_build("systemd-cryptsetup", e, ".service")
        unit == [Blank EXCEPT !.kind = "cryptsetup",
                              !.what = what,
                              !.target = d,
                              !.before = <<"umount.target", "cryptsetup.target">>,
                              !.options = IF rw THEN <<>> ELSE <<"read-only">>,
                              !.timeout = 0,
                              !.description = "Cryptography Setup for %I"]
    IN  Then(WriteExcl(fs, n, unit, flt = "crypt_open", flt = "crypt_flush"),
        LAMBDA f1 :
        Then(Symlink(f1, n, d \o <<".wants">> \o n, flt = "crypt_wants"),
        LAMBDA f2 :
        Then(Symlink(f2, n, <<"cryptsetup", ".target", ".requires">> \o n,
                     flt = "crypt_target"),
        LAMBDA f3 :
        Then(Symlink(f3, n, <<"dev-mapper-", e, ".device", ".requires">> \o n,
                     flt = "crypt_mapper"),
        LAMBDA f4 :
        write_string_file(f4, DropinName(e), DropinContent,
                          flt = "crypt_dropin_open",
                          flt = "crypt_dropin_write")))))

\* The Options= line of add_mount().
MountOptions(options, rw) ==
    options \o <<IF rw THEN "rw" ELSE "ro">>

\* Variant: the mount unit of an encrypted partition keeps the raw partition
\* and the probed type.
add_mount_keeps_raw(fs, id, what, where, fstype, rw, options, description, post, flt) ==
    LET luks == fstype = "crypto_LUKS"
        unit == unit_name_from_path(where, ".mount")
        content == [Blank EXCEPT !.kind = "mount",
                                 !.description = description,
                                 !.before = post,
                                 !.what = what,
                                 !.where = where,
                                 !.fstype = fstype,
                                 !.options = MountOptions(options, rw)]
    IN  Attempted(
        Then(IF luks THEN add_cryptsetup(fs, id, what, rw, flt) ELSE Ret(fs, 0),
        LAMBDA f1 :
        Then(WriteExcl(f1, unit, content, flt = "mount_open",
                       flt \in {"mount_fsck", "mount_flush"}),
        LAMBDA f2 :
        IF post # NULL
        THEN Symlink(f2, unit, post \o <<".requires">> \o unit,
                     flt = "mount_symlink")
        ELSE Ret(f2, 0))))

\* add_mount(id, what, where, fstype, rw, options, description, post)
add_mount(fs, id, what, where, fstype, rw, options, description, post, flt) ==
    LET luks == fstype = "crypto_LUKS"
        what2 == IF luks THEN MapperDevice(id) ELSE what
        fstype2 == IF luks THEN NULLSTR ELSE fstype
        unit == unit_name_from_path(where, ".mount")
        content == [Blank EXCEPT !.kind = "mount",
                                 !.description = description,
                                 !.before = post,
                                 !.what = what2,
                                 !.where = where,
                                 !.fstype = fstype2,
                                 !.options = MountOptions(options, rw)]
    IN  Attempted(
        Then(IF luks THEN add_cryptsetup(fs, id, what, rw, flt) ELSE Ret(fs, 0),
        LAMBDA f1 :
        \* generator_write_fsck_deps() fails between fopen and fflush
        Then(WriteExcl(f1, unit, content, flt = "mount_open",
                       flt \in {"mount_fsck", "mount_flush"}),
        LAMBDA f2 :
        IF post # NULL
        THEN Symlink(f2, unit, post \o <<".requires">> \o unit,
                     flt = "mount_symlink")
        ELSE Ret(f2, 0))))

\* path_is_mount_point(where, AT_SYMLINK_FOLLOW) and dir_is_empty(where) for
\* the states a target path can be in.
PathStates == {"mountpoint", "missing", "unreadable", "empty", "populated",
               "unlistable"}

path_is_mount_point(st) ==
    CASE st = "mountpoint" -> 1
      [] st = "missing" -> -ENOENT
      [] st = "unreadable" -> -EIO
      [] OTHER -> 0

dir_is_empty(st) ==
    CASE st = "empty" -> 1
      [] st = "populated" -> 0
      [] OTHER -> -EIO

\* Variant: a path that is a mount point counts as busy.
path_is_busy_mountpoint(st) ==
    LET r == path_is_mount_point(st)
    IN  IF r > 0 THEN TRUE
        ELSE IF r = -ENOENT THEN FALSE
        ELSE IF r < 0 THEN TRUE
        ELSE IF dir_is_empty(st) <= 0 THEN TRUE
        ELSE FALSE

path_is_busy(st) ==
    LET r == path_is_mount_point(st)
    IN  IF r > 0 THEN FALSE
        ELSE IF r = -ENOENT THEN FALSE
        ELSE IF r < 0 THEN TRUE
        ELSE IF dir_is_empty(st) <= 0 THEN TRUE
        ELSE FALSE

\* blkid_do_safeprobe(): 0 found, 1 nothing found, -2 ambiguous, -1 error.
ProbeResults == {0, 1, -2, -1}

\* probe_and_add_mount(id, what, where, rw, description, post); st is the
\* state of where, probe and fstype what blkid finds on what.
probe_and_add_mount(fs, id, what, where, rw, description, post, st, probe, fstype, flt) ==
    IF path_is_busy(st) THEN Ret(fs, 0)
    ELSE IF flt = "probe_open" THEN Ret(fs, -EIO)
    ELSE IF probe = -2 \/ probe = 1 THEN Ret(fs, 0)
    ELSE IF probe # 0 THEN Ret(fs, -EIO)
    ELSE add_mount(fs, id, what, where, fstype, rw, <<>>, description, post,
                   flt)

\* Variant: a swap entry in fstab is not looked for.
add_swap_ignores_fstab(fs, path, fstab, flt) ==
    IF fstab < 0 THEN Ret(fs, fstab)
    ELSE
      LET name == unit_name_from_path(path, ".swap")
          content == [Blank EXCEPT !.kind = "swap", !.what = path,
                                   !.description = "Swap Partition"]
      IN  Attempted(
          Then(WriteExcl(fs, name, content, flt = "swap_open",
                         flt = "swap_flush"),
          LAMBDA f1 :
          Symlink(f1, name, SPECIAL_SWAP_TARGET \o <<".wants">> \o name,
                  flt = "swap_symlink")))

\* add_swap(path); fstab is what fstab_has_fstype("swap") returns.
add_swap(fs, path, fstab, flt) ==
    IF fstab < 0 THEN Ret(fs, fstab)
    ELSE IF fstab > 0 THEN Ret(fs, 0)
    ELSE
      LET name == unit_name_from_path(path, ".swap")
          content == [Blank EXCEPT !.kind = "swap", !.what = path,
                                   !.description = "Swap Partition"]
      IN  Attempted(
          Then(WriteExcl(fs, name, content, flt = "swap_open",
                         flt = "swap_flush"),
          LAMBDA f1 :
          Symlink(f1, name, SPECIAL_SWAP_TARGET \o <<".wants">> \o name,
                  flt = "swap_symlink")))

USEC_PER_SEC == 1000000

\* Variant: the mount unit behind the automount is hooked into local-fs.target
\* like the mount units of /home and /srv.
add_automount_mounts_at_once(fs, id, what, where, fstype, rw, options, description, timeout, flt) ==
    LET opt == options \o <<"noauto">>
        unit == unit_name_from_path(where, ".automount")
        content == [Blank EXCEPT !.kind = "automount",
                                 !.description = description,
                                 !.where = where,
                                 !.timeout = timeout \div USEC_PER_SEC]
    IN  Attempted(
        Then(add_mount(fs, id, what, where, fstype, rw, opt, description,
                       SPECIAL_LOCAL_FS_TARGET, flt),
        LAMBDA f1 :
        Then(WriteExcl(f1, unit, content, flt = "auto_open", flt = "auto_flush"),
        LAMBDA f2 :
        Symlink(f2, unit, SPECIAL_LOCAL_FS_TARGET \o <<".wants">> \o unit,
                flt = "auto_symlink"))))

\* add_automount(id, what, where, fstype, rw, options, description, timeout)
add_automount(fs, id, what, where, fstype, rw, options, description, timeout, flt) ==
    LET opt == options \o <<"noauto">>
        unit == unit_name_from_path(where, ".automount")
        content == [Blank EXCEPT !.kind = "automount",
                                 !.description = description,
                                 !.where = where,
                                 !.timeout = timeout \div USEC_PER_SEC]
    IN  Attempted(
        Then(add_mount(fs, id, what, where, fstype, rw, opt, description, NULL,
                       flt),
        LAMBDA f1 :
        Then(WriteExcl(f1, unit, content, flt = "auto_open", flt = "auto_flush"),
        LAMBDA f2 :
        Symlink(f2, unit, SPECIAL_LOCAL_FS_TARGET \o <<".wants">> \o unit,
                flt = "auto_symlink"))))

\* sd_id128_from_string(): the 128-bit value of a UUID string written with or
\* without dashes, -EINVAL for anything else.
UuidStrings == {"0a0a", "0a-0a", "0b0b", "zz"}
sd_id128_from_string(s) ==
    CASE s = "0a0a" -> 10
      [] s = "0a-0a" -> 10
      [] s = "0b0b" -> 11
      [] OTHER -> -EINVAL

\* add_boot(what).  env is the environment record (see Init), info the
\* partition record of what.  streq(fstype, "vfat") with fstype == NULL is
\* strcmp() on a null pointer: undefined behaviour, ub is what the build makes
\* of it ("crash": the process dies; "differ": the strings compare unequal).
UbOutcomes == {"crash", "differ"}

\* Variant: an unreadable firmware variable and a failing probe are skips.
add_boot_errors_skip(fs, what, env, info, ub, flt) ==
    IF ~env.efi THEN Ret(fs, 0)
    ELSE IF env.initrd THEN Ret(fs, 0)
    ELSE IF env.container THEN Ret(fs, 0)
    ELSE IF env.fstab_boot THEN Ret(fs, 0)
    ELSE IF path_is_busy(env.path["boot"]) THEN Ret(fs, 0)
    ELSE IF env.loader < 0 THEN Ret(fs, 0)
    ELSE IF flt = "probe_open" THEN Ret(fs, 0)
    ELSE IF info.probe # 0 THEN Ret(fs, 0)
    ELSE IF info.fstype = NULLSTR /\ ub = "crash" THEN Crash(fs)
    ELSE IF info.fstype # "vfat" THEN Ret(fs, 0)
    ELSE IF info.uuid = NULLSTR THEN Ret(fs, 0)
    ELSE IF sd_id128_from_string(info.uuid) < 0 THEN Ret(fs, 0)
    ELSE IF sd_id128_from_string(info.uuid) # env.loader THEN Ret(fs, 0)
    ELSE add_automount(fs, "boot", what, <<"boot">>, "vfat", TRUE,
                       <<"umask=0077">>, "EFI System Partition Automount",
                       120 * USEC_PER_SEC, flt)

add_boot(fs, what, env, info, ub, flt) ==
    IF ~env.efi THEN Ret(fs, 0)
    ELSE IF env.initrd THEN Ret(fs, 0)
    ELSE IF env.container THEN Ret(fs, 0)
    ELSE IF env.fstab_boot THEN Ret(fs, 0)
    ELSE IF path_is_busy(env.path["boot"]) THEN Ret(fs, 0)
    ELSE IF env.loader = -ENOENT THEN Ret(fs, 0)
    ELSE IF env.loader < 0 THEN Ret(fs, env.loader)
    ELSE IF flt = "probe_open" THEN Ret(fs, -EIO)
    ELSE IF info.probe = -2 \/ info.probe = 1 THEN Ret(fs, 0)
    ELSE IF info.probe # 0 THEN Ret(fs, -EIO)
    ELSE IF info.fstype = NULLSTR /\ ub = "crash" THEN Crash(fs)
    ELSE IF info.fstype # "vfat" THEN Ret(fs, 0)
    ELSE IF info.uuid = NULLSTR THEN Ret(fs, 0)
    ELSE IF sd_id128_from_string(info.uuid) < 0 THEN Ret(fs, 0)
    ELSE IF sd_id128_from_string(info.uuid) # env.loader THEN Ret(fs, 0)
    ELSE add_automount(fs, "boot", what, <<"boot">>, "vfat", TRUE,
                       <<"umask=0077">>, "EFI System Partition Automount",
                       120 * USEC_PER_SEC, flt)

\* add_root_mount()
add_root_mount(fs, env, root_rw, flt) ==
    IF ~env.efi THEN Ret(fs, 0)
    ELSE IF env.loader = -ENOENT THEN Ret(fs, 0)
    ELSE IF env.loader < 0 THEN Ret(fs, env.loader)
    ELSE add_mount(fs, "root", <<"dev", "gpt-auto-root">>,
                   IF env.initrd THEN <<"sysroot">> ELSE <<>>,
                   NULLSTR, root_rw, <<>>, "Root Partition",
                   IF env.initrd THEN SPECIAL_INITRD_ROOT_FS_TARGET
                                 ELSE SPECIAL_LOCAL_FS_TARGET,
                   flt)

\* ------------------------------------------------------------------ cmdline

\* One item of /proc/cmdline: a key and a value, NULLSTR for a bare key.
Item(key, value) == [key |-> key, value |-> value]

\* parse_boolean(): 1, 0 or -EINVAL.
parse_boolean(v) ==
    CASE v \in {"1", "yes", "true", "on"} -> 1
      [] v \in {"0", "no", "false", "off"} -> 0
      [] OTHER -> -EINVAL

\* Variant: a root= other than gpt-auto switches the root mount off for good.
parse_proc_cmdline_item_sticky(args, item) ==
    IF item.key \in {"systemd.gpt_auto", "rd.systemd.gpt_auto"}
       /\ item.value # NULLSTR
    THEN IF parse_boolean(item.value) < 0 THEN args
         ELSE [args EXCEPT !.enabled = (parse_boolean(item.value) = 1)]
    ELSE IF item.key = "root" /\ item.value # NULLSTR
    THEN [args EXCEPT !.root_enabled =
                         args.root_enabled /\ item.value = "gpt-auto"]
    ELSE IF item.key = "rw" /\ item.value = NULLSTR
    THEN [args EXCEPT !.root_rw = TRUE]
    ELSE IF item.key = "ro" /\ item.value = NULLSTR
    THEN [args EXCEPT !.root_rw = FALSE]
    ELSE args

\* parse_proc_cmdline_item(key, value) applied to the three switches
\* args = [enabled, root_enabled, root_rw].
parse_proc_cmdline_item(args, item) ==
    IF item.key \in {"systemd.gpt_auto", "rd.systemd.gpt_auto"}
       /\ item.value # NULLSTR
    THEN IF parse_boolean(item.value) < 0 THEN args
         ELSE [args EXCEPT !.enabled = (parse_boolean(item.value) = 1)]
    ELSE IF item.key = "root" /\ item.value # NULLSTR
    THEN [args EXCEPT !.root_enabled = (item.value = "gpt-auto")]
    ELSE IF item.key = "rw" /\ item.value = NULLSTR
    THEN [args EXCEPT !.root_rw = TRUE]
    ELSE IF item.key = "ro" /\ item.value = NULLSTR
    THEN [args EXCEPT !.root_rw = FALSE]
    ELSE args

\* parse_proc_cmdline(parse_proc_cmdline_item): the items in order.
RECURSIVE parse_proc_cmdline(_, _)
parse_proc_cmdline(args, line) ==
    IF line = <<>> THEN args
    ELSE parse_proc_cmdline(parse_proc_cmdline_item(args, Head(line)),
                            Tail(line))

\* The static initialisers of arg_enabled, arg_root_enabled, arg_root_rw.
DefaultArgs == [enabled |-> TRUE, root_enabled |-> TRUE, root_rw |-> FALSE]

\* ------------------------------------------------------------------ state

VARIABLES
    env,            \* what the pass finds outside the disk (see EnvOf)
    parts,          \* the sibling partitions: partition number -> PartInfo
    files0,         \* the generator directory when the pass starts
    files,          \* the generator directory
    budget,         \* handler invocations that may still meet an I/O failure
    pc,             \* where main() is
    args,           \* arg_enabled, arg_root_enabled, arg_root_rw
    todo,           \* udev list entries enumerate_partitions() has not visited
    boot, home, srv,            \* the device nodes remembered by the loop
    boot_nr, home_nr, srv_nr,
    home_rw, srv_rw,
    r,              \* r of enumerate_partitions()
    main_r,         \* r of main()
    exit_status,    \* -1 while running
    attempted,      \* emissions attempted: [role, nr]
    failed          \* steps that returned a negative value

scanvars == <<todo, boot, home, srv, boot_nr, home_nr, srv_nr, home_rw, srv_rw>>
inputs == <<env, parts, files0>>
vars == <<env, parts, files0, files, budget, pc, args, todo, boot, home, srv,
          boot_nr, home_nr, srv_nr, home_rw, srv_rw, r, main_r, exit_status,
          attempted, failed>>

\* A partition as blkid reports it: type GUID string, the two flags, and what
\* probing the partition itself yields (safeprobe result, TYPE,
\* PART_ENTRY_UUID).
Part(type, noauto, ro, probe, fstype, uuid) ==
    [type |-> type, noauto |-> noauto, ro |-> ro, probe |-> probe,
     fstype |-> fstype, uuid |-> uuid]

\* All disks whose partitions are numbered in 1..MaxNr and drawn from infos.
DisksOver(infos) == UNION {[S -> infos] : S \in SUBSET (1..MaxNr)}

\* The environment of a pass.
\*   argc       argument count of main()
\*   container  detect_container() > 0
\*   initrd     in_initrd()
\*   efi        is_efi_boot()
\*   cmdline    the items of /proc/cmdline
\*   loader     efi_loader_get_device_part_uuid(): -ENOENT, -EIO or the id
\*   fstab_boot fstab_is_mount_point("/boot")
\*   fstab_swap fstab_has_fstype("swap")
\*   path       the state of /boot, /home and /srv
\*   blockdev   get_block_device_harder(): "found", "none" or "error"
\*   disk       the head of enumerate_partitions(): "gpt", "skip" (one of the
\*              return 0 exits) or "error" (one of the log_error_errno exits)
EnvOf(argc, container, initrd, efi, cmdline, loader, fstab_boot, fstab_swap, path, blockdev, disk) ==
    [argc |-> argc, container |-> container, initrd |-> initrd, efi |-> efi,
     cmdline |-> cmdline, loader |-> loader, fstab_boot |-> fstab_boot,
     fstab_swap |-> fstab_swap, path |-> path, blockdev |-> blockdev,
     disk |-> disk]

Targets == {"boot", "home", "srv"}

InitWith(envs, disks, budgets) ==
    /\ env \in envs
    /\ parts \in disks
    /\ budget \in budgets
    /\ pc = "main"
    /\ args = DefaultArgs
    /\ todo = {}
    /\ boot = NULL /\ home = NULL /\ srv = NULL
    /\ boot_nr = -1 /\ home_nr = -1 /\ srv_nr = -1
    /\ home_rw = TRUE /\ srv_rw = TRUE
    /\ r = 0
    /\ main_r = 0
    /\ exit_status = -1
    /\ attempted = {}
    /\ failed = {}

\* The fault a handler invocation meets: none, or one of its failure points
\* while the budget lasts.
Faults(points) == {"none"} \cup (IF budget > 0 THEN points ELSE {})
Spend(flt) == budget' = IF flt = "none" THEN budget ELSE budget - 1

At(role, nr) == [role |-> role, nr |-> nr]

\* What a role-processing call leaves behind: the directory, and the two
\* history variables.
Leaves(res, role, nr) ==
    /\ files' = res.fs
    /\ attempted' = attempted \cup (IF res.att THEN {At(role, nr)} ELSE {})
    /\ failed' = failed \cup (IF res.r < 0 THEN {role} ELSE {})

\* The accumulation  if (k < 0) r = k;
Accumulate(cur, k) == IF k < 0 THEN k ELSE cur

\* k = <call>; if (k < 0) r = k;  inside enumerate_partitions(); a call that
\* kills the process ends the pass there.
Called(res, role, nr, nextpc) ==
    /\ Leaves(res, role, nr)
    /\ r' = Accumulate(r, res.r)
    /\ pc' = IF res.crash THEN "crashed" ELSE nextpc

\* ------------------------------------------------------------------ main

\* Variant: only more than three arguments are refused.
UsageError_too_many_only(argc) == argc > 4

\* if (argc > 1 && argc != 4)
UsageError(argc) == argc > 1 /\ argc # 4

\* main() up to the first emitting call: argument count, container check,
\* kernel command line, enable switch.
Main ==
    /\ pc = "main"
    /\ IF UsageError(env.argc)
       THEN /\ exit_status' = EXIT_FAILURE
            /\ pc' = "usage"
            /\ args' = args
       ELSE IF env.container
       THEN /\ exit_status' = EXIT_SUCCESS
            /\ pc' = "done"
            /\ args' = args
       ELSE LET a == parse_proc_cmdline(args, env.cmdline)
            IN  /\ args' = a
                /\ IF ~a.enabled
                   THEN exit_status' = EXIT_SUCCESS /\ pc' = "done"
                   ELSE exit_status' = exit_status /\ pc' = "root"
    /\ UNCHANGED <<inputs, files, budget, scanvars, r, main_r, attempted, failed>>

\* r = add_root_mount();
RootCalled(res) ==
    /\ Leaves(res, "root", 0)
    /\ main_r' = res.r

\* if (arg_root_enabled) r = add_root_mount();
AddRootMount ==
    /\ pc = "root"
    /\ IF args.root_enabled
       THEN \E flt \in Faults(MountFaults) :
              /\ RootCalled(add_root_mount(files, env, args.root_rw, flt))
              /\ Spend(flt)
       ELSE UNCHANGED <<files, main_r, attempted, failed, budget>>
    /\ pc' = IF env.initrd THEN "return" ELSE "add_mounts"
    /\ UNCHANGED <<inputs, args, scanvars, r, exit_status>>

\* add_mounts() and enumerate_partitions() up to the loop over the udev list.
AddMounts ==
    /\ pc = "add_mounts"
    /\ IF env.blockdev = "error" \/ (env.blockdev = "found" /\ env.disk = "error")
       THEN /\ r' = -EIO
            /\ failed' = failed \cup {"enumerate"}
            /\ pc' = "return"
            /\ todo' = todo
       ELSE IF env.blockdev = "none" \/ env.disk = "skip"
       THEN /\ r' = 0
            /\ pc' = "return"
            /\ UNCHANGED <<failed, todo>>
       ELSE /\ r' = 0
            /\ todo' = DOMAIN parts
            /\ pc' = IF DOMAIN parts = {} THEN "boot" ELSE "scan"
            /\ failed' = failed
    /\ UNCHANGED <<inputs, files, budget, args, boot, home, srv, boot_nr,
                   home_nr, srv_nr, home_rw, srv_rw, main_r, exit_status,
                   attempted>>

\* ------------------------------------------------------------------ the loop

\* sd_id128_from_string(stype, &type_id) < 0
TypeUnparsable(stype) == stype = "garbage"

\* Variant: the read-only test of the swap branch is missing.
SwapSkipped_no_ro_test(info) == info.noauto

\* if (flags & GPT_FLAG_NO_AUTO) continue; if (flags & GPT_FLAG_READ_ONLY)
\* continue;  -- the swap branch
SwapSkipped(info) == info.noauto \/ info.ro

\* Variant: the ESP branch honours no-auto like the other branches.
EspSkipped_honours_noauto(info) == info.noauto

\* The ESP branch has no flag test.
EspSkipped(info) == FALSE

\* if (flags & GPT_FLAG_NO_AUTO) continue;  -- the home and srv branches
MountSkipped(info) == info.noauto

\* Variant: the first partition scanned is kept, whatever its number.
NotFirst_first_scanned(cur, cur_nr, nr) == cur # NULL

\* if (boot && nr >= boot_nr) continue;  and its home and srv twins
NotFirst(cur, cur_nr, nr) == cur # NULL /\ nr >= cur_nr

\* Variant: the negation is missing.
RwOf_not_negated(info) == info.ro

\* home_rw = !(flags & GPT_FLAG_READ_ONLY)
RwOf(info) == ~info.ro

\* free_and_strdup(&p, s): 0 when *p already equals s, 1 when it was replaced.
free_and_strdup(p, s) == IF p = s THEN 0 ELSE 1

\* One iteration of udev_list_entry_foreach() in enumerate_partitions(), for
\* the list entry of partition nr.  Entries are visited in the order udev
\* lists them, which is any order.
ScanPartition ==
    /\ pc = "scan"
    /\ \E nr \in todo :
         LET info == parts[nr]
             subnode == DevNode(nr)
             next == IF todo = {nr} THEN "boot" ELSE "scan"
         IN
         /\ todo' = todo \ {nr}
         /\ IF TypeUnparsable(info.type) THEN
              /\ pc' = next
              /\ UNCHANGED <<files, budget, boot, home, srv, boot_nr, home_nr,
                             srv_nr, home_rw, srv_rw, r, attempted, failed>>
            ELSE IF info.type = GPT_SWAP THEN
              IF SwapSkipped(info) THEN
                /\ pc' = next
                /\ UNCHANGED <<files, budget, boot, home, srv, boot_nr, home_nr,
                               srv_nr, home_rw, srv_rw, r, attempted, failed>>
              ELSE
                \E flt \in Faults(SwapFaults) :
                  /\ Called(add_swap(files, subnode, env.fstab_swap, flt),
                            "swap", nr, next)
                  /\ Spend(flt)
                  /\ UNCHANGED <<boot, home, srv, boot_nr, home_nr, srv_nr,
                                 home_rw, srv_rw>>
            ELSE IF info.type = GPT_ESP THEN
              IF EspSkipped(info) \/ NotFirst(boot, boot_nr, nr) THEN
                /\ pc' = next
                /\ UNCHANGED <<files, budget, boot, home, srv, boot_nr, home_nr,
                               srv_nr, home_rw, srv_rw, r, attempted, failed>>
              ELSE
                \E flt \in Faults({"oom"}) :
                  /\ boot_nr' = nr
                  /\ Spend(flt)
                  /\ IF flt = "oom"
                     THEN /\ r' = -ENOMEM
                          /\ boot' = boot
                          /\ failed' = failed \cup {"oom"}
                          /\ pc' = "return"
                     ELSE /\ r' = free_and_strdup(boot, subnode)
                          /\ boot' = subnode
                          /\ failed' = failed
                          /\ pc' = next
                  /\ UNCHANGED <<files, home, srv, home_nr, srv_nr, home_rw,
                                 srv_rw, attempted>>
            ELSE IF info.type = GPT_HOME THEN
              IF MountSkipped(info) \/ NotFirst(home, home_nr, nr) THEN
                /\ pc' = next
                /\ UNCHANGED <<files, budget, boot, home, srv, boot_nr, home_nr,
                               srv_nr, home_rw, srv_rw, r, attempted, failed>>
              ELSE
                \E flt \in Faults({"oom"}) :
                  /\ home_nr' = nr
                  /\ home_rw' = RwOf(info)
                  /\ Spend(flt)
                  /\ IF flt = "oom"
                     THEN /\ r' = -ENOMEM
                          /\ home' = home
                          /\ failed' = failed \cup {"oom"}
                          /\ pc' = "return"
                     ELSE /\ r' = free_and_strdup(home, subnode)
                          /\ home' = subnode
                          /\ failed' = failed
                          /\ pc' = next
                  /\ UNCHANGED <<files, boot, srv, boot_nr, srv_nr, srv_rw,
                                 attempted>>
            ELSE IF info.type = GPT_SRV THEN
              IF MountSkipped(info) \/ NotFirst(srv, srv_nr, nr) THEN
                /\ pc' = next
                /\ UNCHANGED <<files, budget, boot, home, srv, boot_nr, home_nr,
                               srv_nr, home_rw, srv_rw, r, attempted, failed>>
              ELSE
                \E flt \in Faults({"oom"}) :
                  /\ srv_nr' = nr
                  /\ srv_rw' = RwOf(info)
                  /\ Spend(flt)
                  /\ IF flt = "oom"
                     THEN /\ r' = -ENOMEM
                          /\ srv' = srv
                          /\ failed' = failed \cup {"oom"}
                          /\ pc' = "return"
                     ELSE /\ r' = free_and_strdup(srv, subnode)
                          /\ srv' = subnode
                          /\ failed' = failed
                          /\ pc' = next
                  /\ UNCHANGED <<files, boot, home, boot_nr, home_nr, home_rw,
                                 attempted>>
            ELSE
              /\ pc' = next
              /\ UNCHANGED <<files, budget, boot, home, srv, boot_nr, home_nr,
                             srv_nr, home_rw, srv_rw, r, attempted, failed>>
    /\ UNCHANGED <<inputs, args, main_r, exit_status>>

\* ------------------------------------------------------------------ the roles

\* if (boot) { k = add_boot(boot); if (k < 0) r = k; }
AddBoot ==
    /\ pc = "boot"
    /\ IF boot # NULL
       THEN \E flt \in Faults(ProbeFaults \cup MountFaults \cup AutomountFaults),
               ub \in UbOutcomes :
              /\ Called(add_boot(files, boot, env, parts[boot_nr], ub, flt),
                        "boot", boot_nr, "home")
              /\ Spend(flt)
       ELSE /\ pc' = "home"
            /\ UNCHANGED <<files, r, attempted, failed, budget>>
    /\ UNCHANGED <<inputs, args, scanvars, main_r, exit_status>>

\* if (home) { k = probe_and_add_mount("home", home, "/home", home_rw, ...
AddHome ==
    /\ pc = "home"
    /\ IF home # NULL
       THEN \E flt \in Faults(ProbeFaults \cup CryptFaults \cup MountFaults) :
              /\ Called(probe_and_add_mount(files, "home", home, <<"home">>,
                            home_rw, "Home Partition", SPECIAL_LOCAL_FS_TARGET,
                            env.path["home"], parts[home_nr].probe,
                            parts[home_nr].fstype, flt),
                        "home", home_nr, "srv")
              /\ Spend(flt)
       ELSE /\ pc' = "srv"
            /\ UNCHANGED <<files, r, attempted, failed, budget>>
    /\ UNCHANGED <<inputs, args, scanvars, main_r, exit_status>>

\* if (srv) { k = probe_and_add_mount("srv", srv, "/srv", srv_rw, ...
AddSrv ==
    /\ pc = "srv"
    /\ IF srv # NULL
       THEN \E flt \in Faults(ProbeFaults \cup CryptFaults \cup MountFaults) :
              /\ Called(probe_and_add_mount(files, "srv", srv, <<"srv">>,
                            srv_rw, "Server Data Partition",
                            SPECIAL_LOCAL_FS_TARGET,
                            env.path["srv"], parts[srv_nr].probe,
                            parts[srv_nr].fstype, flt),
                        "srv", srv_nr, "return")
              /\ Spend(flt)
       ELSE /\ pc' = "return"
            /\ UNCHANGED <<files, r, attempted, failed, budget>>
    /\ UNCHANGED <<inputs, args, scanvars, main_r, exit_status>>

\* enumerate_partitions() and add_mounts() return r; main():
\* k = add_mounts(); if (k < 0) r = k; return r < 0 ? EXIT_FAILURE : EXIT_SUCCESS
Return ==
    /\ pc = "return"
    /\ LET k == IF env.initrd THEN 0 ELSE r
           res == Accumulate(main_r, k)
       IN  /\ main_r' = res
           /\ exit_status' = IF res < 0 THEN EXIT_FAILURE ELSE EXIT_SUCCESS
    /\ pc' = "done"
    /\ UNCHANGED <<inputs, files, budget, args, scanvars, r, attempted, failed>>

Next ==
    \/ Main
    \/ AddRootMount
    \/ AddMounts
    \/ ScanPartition
    \/ AddBoot
    \/ AddHome
    \/ AddSrv
    \/ Return

\* ------------------------------------------------------------------ specifications

\* What is on a partition of each type when nothing is wrong with it.
FsOf(type) ==
    CASE type = GPT_ESP -> "vfat"
      [] type \in {GPT_HOME, GPT_SRV} -> "ext4"
      [] type = GPT_SWAP -> "swap"
      [] OTHER -> NULLSTR

\* An EFI boot of the host system from the partition with id 10, nothing
\* mounted or configured yet, an empty kernel command line.
PlainEnv ==
    EnvOf(1, FALSE, FALSE, TRUE, <<>>, 10, FALSE, 0,
          [t \in Targets |-> "missing"], "found", "gpt")

EmptyDir == <<>>

\* The generator directory is empty when the pass starts.
Fresh == files0 = EmptyDir /\ files = files0

\* Spec: every disk with partitions numbered in 1..MaxNr, of every type and
\* with every combination of the two flags, scanned in every order; no I/O
\* failure, an empty generator directory.
FlagInfos ==
    {Part(t, na, ro, 0, FsOf(t), "0a0a") :
        t \in {GPT_SWAP, GPT_HOME, GPT_SRV}, na \in BOOLEAN, ro \in BOOLEAN}
    \cup {Part(GPT_ESP, na, FALSE, 0, FsOf(GPT_ESP), "0a0a") : na \in BOOLEAN}
    \cup {Part("other", FALSE, FALSE, 0, NULLSTR, NULLSTR)}

Init == InitWith({PlainEnv}, DisksOver(FlagInfos), {0}) /\ Fresh

Spec == Init /\ [][Next]_vars

\* SpecGuard: one disk with an ESP, a /home and a /srv partition that pass
\* every check, under every state of the three target paths, with and without
\* /boot in fstab.
GoodEsp == Part(GPT_ESP, FALSE, FALSE, 0, "vfat", "0a0a")
GoodHome == Part(GPT_HOME, FALSE, FALSE, 0, "ext4", NULLSTR)
GoodSrv == Part(GPT_SRV, FALSE, FALSE, 0, "ext4", NULLSTR)
GoodSwap == Part(GPT_SWAP, FALSE, FALSE, 0, "swap", NULLSTR)
LuksHome == Part(GPT_HOME, FALSE, FALSE, 0, "crypto_LUKS", NULLSTR)
LuksSrv == Part(GPT_SRV, FALSE, TRUE, 0, "crypto_LUKS", NULLSTR)
BlankEsp == Part(GPT_ESP, FALSE, FALSE, 0, NULLSTR, "0a0a")

GuardEnvs ==
    {EnvOf(1, FALSE, FALSE, TRUE, <<>>, 10, fb, 0, path, "found", "gpt") :
        fb \in BOOLEAN, path \in [Targets -> PathStates]}

InitGuard ==
    InitWith(GuardEnvs, {<<GoodEsp, GoodHome, GoodSrv>>}, {0}) /\ Fresh

SpecGuard == InitGuard /\ [][Next]_vars

\* SpecBoot: a disk with one ESP in every state the probe of add_boot() can
\* find it in, followed by a /home partition, under every answer of the
\* firmware and with /boot missing or populated.
EspInfos ==
    {Part(GPT_ESP, FALSE, FALSE, probe, fstype, uuid) :
        probe \in ProbeResults,
        fstype \in {NULLSTR, "vfat", "ext4"},
        uuid \in UuidStrings \cup {NULLSTR}}

BootEnvs ==
    {EnvOf(1, FALSE, FALSE, efi, <<>>, loader, fb, 0,
           [t \in Targets |-> IF t = "boot" THEN bootpath ELSE "missing"],
           "found", "gpt") :
        efi \in BOOLEAN, loader \in {-ENOENT, -EIO, 10, 11}, fb \in BOOLEAN,
        bootpath \in {"missing", "populated"}}

InitBoot ==
    InitWith(BootEnvs, {<<esp, GoodHome>> : esp \in EspInfos}, {0}) /\ Fresh

SpecBoot == InitBoot /\ [][Next]_vars

\* SpecSkip: the disks and environments of SpecBoot, in a pass in which up to
\* MaxFaults handler invocations meet an I/O failure.
InitSkip ==
    InitWith(BootEnvs, {<<esp, GoodHome>> : esp \in EspInfos}, {MaxFaults})
    /\ Fresh

SpecSkip == InitSkip /\ [][Next]_vars

\* SpecFault: disks of swap, ESP, encrypted /home and /srv partitions, in a
\* pass in which up to MaxFaults handler invocations meet an I/O failure (or
\* memory runs out), the firmware variable and fstab may be unreadable, and
\* the disk itself may fail to probe.
FaultInfos == {GoodSwap, GoodEsp, BlankEsp, LuksHome, GoodSrv}

FaultEnvs ==
    {EnvOf(1, FALSE, FALSE, TRUE, <<>>, loader, FALSE, fstab,
           [t \in Targets |-> "missing"], "found", disk) :
        loader \in {10, -EIO}, fstab \in {0, -EIO}, disk \in {"gpt", "error"}}

InitFault ==
    InitWith(FaultEnvs, DisksOver(FaultInfos), {MaxFaults}) /\ Fresh

SpecFault == InitFault /\ [][Next]_vars

\* SpecLuks: disks of plain and encrypted /home and /srv partitions and an
\* ESP, in a pass in which up to MaxFaults handler invocations meet an I/O
\* failure.
LuksInfos == {GoodEsp, GoodHome, LuksHome, GoodSrv, LuksSrv}

InitLuks == InitWith({PlainEnv}, DisksOver(LuksInfos), {MaxFaults}) /\ Fresh

SpecLuks == InitLuks /\ [][Next]_vars

\* SpecCmdline: every kernel command line of up to MaxItems items out of
\* root=gpt-auto, root=<a device>, a bare root, rw, ro and systemd.gpt_auto=0,
\* in the initrd and in the booted system.
CmdItems ==
    {Item("root", "gpt-auto"), Item("root", "/dev/sda1"),
     Item("root", NULLSTR), Item("rw", NULLSTR), Item("ro", NULLSTR),
     Item("systemd.gpt_auto", "0")}

CmdLines == UNION {[1..n -> CmdItems] : n \in 0..MaxItems}

CmdlineEnvs ==
    {EnvOf(1, FALSE, initrd, TRUE, line, 10, FALSE, 0,
           [t \in Targets |-> "missing"], "found", "gpt") :
        initrd \in BOOLEAN, line \in CmdLines}

InitCmdline ==
    InitWith(CmdlineEnvs, {<<GoodEsp, GoodHome>>}, {0}) /\ Fresh

SpecCmdline == InitCmdline /\ [][Next]_vars

\* SpecUsage: the generator started with argc in 1..MaxArgc, on a disk with a
\* swap and a /home partition or with an ESP, an encrypted /home and a /srv
\* partition, in a pass in which up to MaxFaults handler
\* invocations meet an I/O failure.
UsageEnvs ==
    {EnvOf(argc, FALSE, FALSE, TRUE, <<>>, 10, FALSE, 0,
           [t \in Targets |-> "missing"], "found", "gpt") :
        argc \in 1..MaxArgc}

InitUsage ==
    InitWith(UsageEnvs,
             {<<GoodSwap, GoodHome>>, <<GoodEsp, LuksHome, GoodSrv>>},
             {MaxFaults}) /\ Fresh

SpecUsage == InitUsage /\ [][Next]_vars

\* SpecFstab: disks of swap partitions with every combination of the two
\* flags, an ESP and a /home partition, with and without a swap entry in
\* fstab, in a pass in which up to MaxFaults handler invocations meet an I/O
\* failure.
FstabInfos ==
    {Part(GPT_SWAP, na, ro, 0, "swap", NULLSTR) :
        na \in BOOLEAN, ro \in BOOLEAN}
    \cup {GoodEsp, GoodHome}

FstabEnvs ==
    {EnvOf(1, FALSE, FALSE, TRUE, <<>>, 10, FALSE, fstab,
           [t \in Targets |-> "missing"], "found", "gpt") :
        fstab \in {0, 1}}

InitFstab ==
    InitWith(FstabEnvs, DisksOver(FstabInfos), {MaxFaults}) /\ Fresh

SpecFstab == InitFstab /\ [][Next]_vars

\* What a pass without failures writes into an empty directory for the disk
\* ps under the environment e with an empty command line: the root mount, a
\* swap unit per eligible swap partition, and /boot, /home and /srv from the
\* smallest-numbered candidate of each.
MinOf(S) == CHOOSE x \in S : \A y \in S : x <= y

RECURSIVE SwapsOutput(_, _, _)
SwapsOutput(fs, e, todoSwaps) ==
    IF todoSwaps = {} THEN fs
    ELSE SwapsOutput(add_swap(fs, DevNode(MinOf(todoSwaps)), e.fstab_swap,
                              "none").fs,
                     e, todoSwaps \ {MinOf(todoSwaps)})

BootOutput(fs, e, ps, esps) ==
    IF esps = {} THEN fs
    ELSE add_boot(fs, DevNode(MinOf(esps)), e, ps[MinOf(esps)], "differ",
                  "none").fs

MountOutput(fs, e, ps, cands, id, description) ==
    IF cands = {} THEN fs
    ELSE probe_and_add_mount(fs, id, DevNode(MinOf(cands)), <<id>>,
                             ~ps[MinOf(cands)].ro, description,
                             SPECIAL_LOCAL_FS_TARGET, e.path[id],
                             ps[MinOf(cands)].probe, ps[MinOf(cands)].fstype,
                             "none").fs

PassOutput(e, ps) ==
    MountOutput(
      MountOutput(
        BootOutput(
          SwapsOutput(
            add_root_mount(EmptyDir, e, DefaultArgs.root_rw, "none").fs,
            e,
            {n \in DOMAIN ps : ps[n].type = GPT_SWAP /\ ~ps[n].noauto
                               /\ ~ps[n].ro}),
          e, ps, {n \in DOMAIN ps : ps[n].type = GPT_ESP}),
        e, ps, {n \in DOMAIN ps : ps[n].type = GPT_HOME /\ ~ps[n].noauto},
        "home", "Home Partition"),
      e, ps, {n \in DOMAIN ps : ps[n].type = GPT_SRV /\ ~ps[n].noauto},
      "srv", "Server Data Partition")

\* A directory in which the artifacts named in S were written by somebody
\* else.
ForeignDir(S) == [n \in S |-> Foreign]

\* The directories a pass can start in: empty, holding up to MaxPre foreign
\* artifacts under names the pass writes, or left by an earlier pass over the
\* same disk.
PreDirs(e, ps) ==
    {PassOutput(e, ps)}
    \cup {ForeignDir(S) : S \in {T \in SUBSET DOMAIN PassOutput(e, ps) :
                                    Cardinality(T) <= MaxPre}}

\* SpecRerun: a pass over a directory that is not empty, on disks with
\* swap, ESP, plain and encrypted partitions, with up to MaxFaults failures.
RerunDisks ==
    {<<GoodSwap, GoodEsp, LuksHome>>,
     <<LuksHome, GoodSrv, GoodSwap>>,
     <<GoodEsp, GoodHome, LuksSrv>>}

InitRerun ==
    /\ InitWith({PlainEnv}, RerunDisks, {MaxFaults})
    /\ files0 \in PreDirs(env, parts)
    /\ files = files0

SpecRerun == InitRerun /\ [][Next]_vars

\* ------------------------------------------------------------------ properties

\* The loop of enumerate_partitions() has visited every list entry.
ScanDone == pc \in {"boot", "home", "srv"}

Min(S) == CHOOSE x \in S : \A y \in S : x <= y

\* The partitions of a type GUID.
OfType(type) == {n \in DOMAIN parts : parts[n].type = type}

\* The candidates of each role: the partitions of its type that the flags do
\* not exclude.
BootCandidates == OfType(GPT_ESP)
HomeCandidates == {n \in OfType(GPT_HOME) : ~parts[n].noauto}
SrvCandidates == {n \in OfType(GPT_SRV) : ~parts[n].noauto}
SwapCandidates == {n \in OfType(GPT_SWAP) : ~parts[n].noauto /\ ~parts[n].ro}

\* The partition a role must end up with: none, or the candidate with the
\* smallest number.
Chosen(cands, node, nr) ==
    IF cands = {} THEN node = NULL
    ELSE node = DevNode(Min(cands)) /\ nr = Min(cands)

\* C1: for Boot, Home and ServerData, whatever the order in which the
\* partitions were scanned, the partition chosen is the candidate with the
\* smallest partition number (and none is chosen when there is no candidate).
C1_SmallestNumberWins ==
    ScanDone =>
        /\ Chosen(BootCandidates, boot, boot_nr)
        /\ Chosen(HomeCandidates, home, home_nr)
        /\ Chosen(SrvCandidates, srv, srv_nr)

\* The scan is over on a disk with several candidates for /home and an ESP,
\* and the smallest candidate was kept.
C1_Witness ==
    /\ ScanDone
    /\ Cardinality(HomeCandidates) >= 2
    /\ BootCandidates # {}
    /\ home = DevNode(Min(HomeCandidates))
    /\ boot = DevNode(Min(BootCandidates))

\* The unit files of a kind, and the mount units of a target path.
UnitsOfKind(kind) == {n \in DOMAIN files : files[n].kind = kind}
MountsAt(where) == {n \in UnitsOfKind("mount") : files[n].where = where}
AutomountsAt(where) ==
    {n \in UnitsOfKind("automount") : files[n].where = where}

\* The partitions for which emission was attempted under a role.
AttemptedFor(role) == {a.nr : a \in {x \in attempted : x.role = role}}

\* C2 as stated: at most one descriptor per role, Swap included.
C2_Original_AtMostOnePerRole ==
    /\ \A role \in {"root", "boot", "home", "srv", "swap"} :
          Cardinality(AttemptedFor(role)) <= 1
    /\ Cardinality(UnitsOfKind("swap")) <= 1

\* C2 amended: Root, Boot, Home and ServerData are emitted for at most one
\* partition each and have at most one mount unit; Swap is emitted once for
\* every eligible swap partition, so that once the scan is over there is one
\* Swap descriptor per Swap-typed partition that is neither no-auto nor
\* read-only.
C2_OnePerRoleButEverySwap ==
    /\ \A role \in {"root", "boot", "home", "srv"} :
          Cardinality(AttemptedFor(role)) <= 1
    /\ \A where \in {<<>>, <<"boot">>, <<"home">>, <<"srv">>} :
          Cardinality(MountsAt(where)) <= 1
    /\ AttemptedFor("swap") \subseteq SwapCandidates
    /\ (ScanDone /\ env.fstab_swap = 0) =>
          /\ AttemptedFor("swap") = SwapCandidates
          /\ UnitsOfKind("swap") =
                {unit_name_from_path(DevNode(n), ".swap") : n \in SwapCandidates}

\* A disk with two eligible swap partitions got two Swap descriptors, and
\* /home one mount unit.
C2_Witness ==
    /\ pc = "done"
    /\ Cardinality(SwapCandidates) >= 2
    /\ Cardinality(UnitsOfKind("swap")) >= 2
    /\ Cardinality(MountsAt(<<"home">>)) = 1

\* A partition no mount or swap unit names as its source, and for which no
\* emission was attempted.
Untouched(n) ==
    /\ \A a \in attempted : a.nr # n
    /\ \A f \in DOMAIN files : files[f].what # DevNode(n)

\* The units add_boot() emits for the ESP numbered n when every check passes.
BootUnitsFor(n) ==
    /\ MountsAt(<<"boot">>) = {unit_name_from_path(<<"boot">>, ".mount")}
    /\ \A f \in MountsAt(<<"boot">>) : files[f].what = DevNode(n)
    /\ AutomountsAt(<<"boot">>) = {unit_name_from_path(<<"boot">>, ".automount")}

\* C3: a no-auto partition of type Swap, Home or ServerData is never chosen
\* and nothing is emitted from it; for Boot the flag changes nothing: the ESP
\* with the smallest number is chosen and /boot is emitted from it, whether
\* or not it (or any other ESP) has no-auto set.
C3_NoAutoExcludesAllButBoot ==
    /\ \A n \in OfType(GPT_SWAP) \cup OfType(GPT_HOME) \cup OfType(GPT_SRV) :
          parts[n].noauto =>
              /\ Untouched(n)
              /\ DevNode(n) \notin {home, srv}
    /\ (ScanDone /\ OfType(GPT_ESP) # {}) =>
          boot = DevNode(Min(OfType(GPT_ESP)))
    /\ (pc = "done" /\ OfType(GPT_ESP) # {}) =>
          BootUnitsFor(Min(OfType(GPT_ESP)))

\* The pass is over; /boot was emitted from an ESP that has no-auto set, and
\* a no-auto /home partition was passed over.
C3_Witness ==
    /\ pc = "done"
    /\ OfType(GPT_ESP) # {}
    /\ parts[Min(OfType(GPT_ESP))].noauto
    /\ BootUnitsFor(Min(OfType(GPT_ESP)))
    /\ \E n \in OfType(GPT_HOME) : parts[n].noauto /\ Untouched(n)

\* The last option of a mount unit: "rw" or "ro".
RwOption(f) == files[f].options[Len(files[f].options)]

\* C4: the mount unit of /home (of /srv) says ro exactly when the partition
\* chosen for it, the candidate with the smallest number, has the read-only
\* flag, whatever the flags of the other candidates; nothing is emitted from
\* a read-only swap partition.
C4_ReadOnlyFollowsWinner ==
    /\ \A f \in MountsAt(<<"home">>) :
          /\ HomeCandidates # {}
          /\ RwOption(f) =
                IF parts[Min(HomeCandidates)].ro THEN "ro" ELSE "rw"
    /\ \A f \in MountsAt(<<"srv">>) :
          /\ SrvCandidates # {}
          /\ RwOption(f) =
                IF parts[Min(SrvCandidates)].ro THEN "ro" ELSE "rw"
    /\ \A n \in OfType(GPT_SWAP) : parts[n].ro => Untouched(n)

\* /home was emitted read-only from the winner although another candidate is
\* read-write, and a read-only swap partition was passed over.
C4_Witness ==
    /\ pc = "done"
    /\ \E f \in MountsAt(<<"home">>) : RwOption(f) = "ro"
    /\ \E n \in HomeCandidates : ~parts[n].ro
    /\ \E n \in OfType(GPT_SWAP) : parts[n].ro /\ ~parts[n].noauto /\ Untouched(n)

\* The units present for a target path.
UnitsAt(where) == MountsAt(where) \cup AutomountsAt(where)

\* The partition remembered for a target, NULL when there is none.
WinnerOf(t) ==
    CASE t = "boot" -> boot
      [] t = "home" -> home
      [] t = "srv" -> srv

\* C5 as stated: a target path that is already a mount point is busy, so no
\* Mount or Automount unit is emitted for it.
C5_Original_MountPointIsBusy ==
    \A t \in Targets :
        env.path[t] = "mountpoint" => UnitsAt(<<t>>) = {}

\* C5 amended: a target path is busy when the mount point test fails with
\* anything but ENOENT, or when the path is no mount point and is a directory
\* that has entries or cannot be listed; then nothing is emitted for it.  A
\* path that is already a mount point is not busy, no more than a missing or
\* an empty one: the role is processed and its mount unit is emitted.
C5_MountPointIsNotBusy ==
    \A t \in Targets :
        /\ env.path[t] \in {"unreadable", "populated", "unlistable"} =>
              /\ UnitsAt(<<t>>) = {}
              /\ AttemptedFor(t) = {}
        /\ (/\ pc = "done"
            /\ env.path[t] \in {"mountpoint", "missing", "empty"}
            /\ WinnerOf(t) # NULL
            /\ (t = "boot" => ~env.fstab_boot)) =>
              /\ MountsAt(<<t>>) # {}
              /\ AttemptedFor(t) # {}

\* The pass is over: /home was a mount point and got its mount unit, /srv
\* was a populated directory and got none.
C5_Witness ==
    /\ pc = "done"
    /\ env.path["home"] = "mountpoint"
    /\ MountsAt(<<"home">>) # {}
    /\ env.path["boot"] = "mountpoint"
    /\ AutomountsAt(<<"boot">>) # {}
    /\ env.path["srv"] = "populated"
    /\ UnitsAt(<<"srv">>) = {}
    /\ srv # NULL

\* What add_boot() must find on the ESP to emit /boot: a definite probe, a
\* FAT filesystem, and a partition entry UUID that parses and equals the one
\* the firmware reports.
EspMatches(info) ==
    /\ info.probe = 0
    /\ info.fstype = "vfat"
    /\ info.uuid # NULLSTR
    /\ sd_id128_from_string(info.uuid) >= 0
    /\ sd_id128_from_string(info.uuid) = env.loader

\* add_boot() has been called and the process has left it, one way or another.
AfterAddBoot ==
    boot # NULL /\ pc \in {"home", "srv", "return", "done", "crashed"}

\* C10: /boot is emitted only for an ESP that is FAT and whose partition
\* entry UUID is the booted one; for every other outcome of a probe that
\* found something (a mismatch, a missing or unparsable UUID, another
\* filesystem type, no filesystem type) add_boot() emits nothing and returns
\* 0, and whatever the probe says it returns to its caller.
C10_BootOnlyForBootedFatEsp ==
    /\ UnitsAt(<<"boot">>) # {} => boot # NULL /\ EspMatches(parts[boot_nr])
    /\ (AfterAddBoot /\ ~EspMatches(parts[boot_nr])) =>
          /\ UnitsAt(<<"boot">>) = {}
          /\ pc # "crashed"
          /\ (parts[boot_nr].probe = 0 /\ env.loader >= 0) =>
                "boot" \notin failed

\* C6: the exit status is failure exactly when some step of the pass recorded
\* a hard failure.
C6_ExitFailureIffHardFailure ==
    pc = "done" => (exit_status = EXIT_FAILURE <=> failed # {})

\* The loop of enumerate_partitions() ran over the whole list.
ScanCompleted ==
    /\ pc \in {"done", "crashed"}
    /\ args.enabled /\ ~env.container /\ ~(env.argc > 1 /\ env.argc # 4)
    /\ ~env.initrd /\ env.blockdev = "found" /\ env.disk = "gpt"
    /\ "oom" \notin failed

\* A role is due when it has a winner, its target is not busy and every check
\* before the emission passes.
BootDue ==
    /\ BootCandidates # {}
    /\ env.efi /\ ~env.fstab_boot /\ ~path_is_busy(env.path["boot"])
    /\ env.loader >= 0
    /\ EspMatches(parts[Min(BootCandidates)])
HomeDue ==
    /\ HomeCandidates # {}
    /\ ~path_is_busy(env.path["home"])
    /\ parts[Min(HomeCandidates)].probe = 0
SrvDue ==
    /\ SrvCandidates # {}
    /\ ~path_is_busy(env.path["srv"])
    /\ parts[Min(SrvCandidates)].probe = 0

\* C7: when some role failed (memory exhaustion apart), every role that is
\* due was attempted all the same, or is itself among the failed ones.
C7_FailureNeverStopsOtherRoles ==
    (ScanCompleted /\ failed # {}) =>
        /\ env.fstab_swap = 0 => AttemptedFor("swap") = SwapCandidates
        /\ BootDue => (AttemptedFor("boot") # {} \/ "boot" \in failed)
        /\ HomeDue => (AttemptedFor("home") # {} \/ "home" \in failed)
        /\ SrvDue => (AttemptedFor("srv") # {} \/ "srv" \in failed)

\* The symlink a unit is hooked into a target with.
Edge(target, how, unit) == target \o <<how>> \o unit

Present(name) == name \in DOMAIN files
Written(name) == Present(name) /\ files[name].complete

\* The edges of a CryptoUnlock unit for the role id on the partition what.
CryptEdges(id, what) ==
    {unit_name_from_path(what, ".device") \o <<".wants">> \o CryptsetupUnit(id),
     <<"cryptsetup", ".target", ".requires">> \o CryptsetupUnit(id),
     <<"dev-mapper-", id, ".device", ".requires">> \o CryptsetupUnit(id)}

\* C8 as stated: once the pass has ended, every descriptor that is present is
\* completely written and has all its edges, a CryptoUnlock unit has its
\* device override and the mount unit of its role, and the /boot mount unit
\* has its automount unit.
C8_Original_AllOrNothing ==
    pc \in {"done", "crashed"} =>
        /\ \A f \in DOMAIN files : files[f].complete
        /\ \A f \in UnitsOfKind("mount") :
              files[f].before # NULL =>
                  Present(Edge(files[f].before, ".requires", f))
        /\ \A f \in UnitsOfKind("swap") :
              Present(Edge(SPECIAL_SWAP_TARGET, ".wants", f))
        /\ \A f \in UnitsOfKind("automount") :
              Present(Edge(SPECIAL_LOCAL_FS_TARGET, ".wants", f))
        /\ MountsAt(<<"boot">>) # {} => AutomountsAt(<<"boot">>) # {}
        /\ \A id \in {"home", "srv"} :
              Present(CryptsetupUnit(id)) =>
                  /\ CryptEdges(id, files[CryptsetupUnit(id)].what)
                        \subseteq DOMAIN files
                  /\ Present(DropinName(id))
                  /\ MountsAt(<<id>>) # {}

\* C8 amended: emission is ordered, not atomic.  An edge the pass creates
\* points to a descriptor that is completely written; an automount unit is
\* there only with its complete mount unit; a mount unit on a mapped device
\* is there only with the complete CryptoUnlock unit of its role, its three
\* edges and its device override.
C8_EdgesOnlyAfterDescriptor ==
    /\ \A l \in UnitsOfKind("link") \ DOMAIN files0 :
          Written(files[l].target)
    /\ \A t \in Targets :
          (Present(unit_name_from_path(<<t>>, ".automount"))
           /\ unit_name_from_path(<<t>>, ".automount") \notin DOMAIN files0) =>
              Written(unit_name_from_path(<<t>>, ".mount"))
    /\ \A id \in {"home", "srv"} :
          (/\ Present(unit_name_from_path(<<id>>, ".mount"))
           /\ unit_name_from_path(<<id>>, ".mount") \notin DOMAIN files0
           /\ WinnerOf(id) # NULL
           /\ \E n \in DOMAIN parts :
                 DevNode(n) = WinnerOf(id) /\ parts[n].fstype = "crypto_LUKS")
          =>
              /\ Written(CryptsetupUnit(id))
              /\ CryptEdges(id, WinnerOf(id)) \subseteq DOMAIN files
              /\ Written(DropinName(id))

\* The pass is over after a failure: the CryptoUnlock unit of /home and its
\* edges are there, complete, and the mount unit is not; a swap unit is there
\* with its edge.
C8_Witness ==
    /\ pc = "done"
    /\ Written(CryptsetupUnit("home"))
    /\ \E l \in UnitsOfKind("link") : files[l].target = CryptsetupUnit("home")
    /\ MountsAt(<<"home">>) = {}
    /\ \E f \in UnitsOfKind("swap") :
          Present(Edge(SPECIAL_SWAP_TARGET, ".wants", f))

\* C9 as stated: whatever was in the directory when the pass started is
\* there, unchanged.
C9_Original_NothingOverwritten ==
    \A n \in DOMAIN files0 : Present(n) /\ files[n] = files0[n]

DropinNames == {DropinName(id) : id \in {"root", "boot", "home", "srv"}}

\* The unit file a role's emission creates first.
FirstUnitOf(role) ==
    CASE role = "home" ->
           IF parts[home_nr].fstype = "crypto_LUKS"
           THEN CryptsetupUnit("home")
           ELSE unit_name_from_path(<<"home">>, ".mount")
      [] role = "srv" ->
           IF parts[srv_nr].fstype = "crypto_LUKS"
           THEN CryptsetupUnit("srv")
           ELSE unit_name_from_path(<<"srv">>, ".mount")
      [] role = "boot" -> unit_name_from_path(<<"boot">>, ".mount")
      [] role = "root" -> unit_name_from_path(<<>>, ".mount")

\* C9 amended: every unit file and every edge link that was in the directory
\* when the pass started is there, unchanged; an emission whose first unit
\* file was there already is a hard failure; a pass over what an earlier pass
\* over the same disk left changes nothing at all.  (The device override is
\* not covered: it is written without exclusive create.)
C9_UnitsAndLinksNeverOverwritten ==
    /\ \A n \in DOMAIN files0 \ DropinNames :
          Present(n) /\ files[n] = files0[n]
    /\ \A role \in {"root", "boot", "home", "srv"} :
          (AttemptedFor(role) # {} /\ FirstUnitOf(role) \in DOMAIN files0) =>
              role \in failed
    /\ files0 = PassOutput(env, parts) => files = files0

\* The pass is over: the mount unit of /home was there before, is unchanged,
\* and the emission for /home failed.
C9_Witness ==
    /\ pc = "done"
    /\ AttemptedFor("home") # {}
    /\ \E n \in DOMAIN files0 :
          /\ n = FirstUnitOf("home")
          /\ files0[n] = Foreign
          /\ files[n] = Foreign
    /\ "home" \in failed

\* ------------------------------------------------------------------ C11

\* The partition remembered for /home or /srv holds an encrypted container
\* and the role's emission returned without failure.
LuksEmitted(id) ==
    /\ pc \in {"done", "crashed"}
    /\ WinnerOf(id) # NULL
    /\ \E n \in DOMAIN parts :
          DevNode(n) = WinnerOf(id) /\ parts[n].fstype = "crypto_LUKS"
    /\ AttemptedFor(id) # {}
    /\ id \notin failed

\* The descriptors of a role: its CryptoUnlock unit and the units at its path.
DescriptorsOf(id) ==
    {n \in DOMAIN files :
        \/ n = CryptsetupUnit(id)
        \/ files[n].kind \in {"mount", "automount", "swap"}
           /\ files[n].where = <<id>>}

\* The CryptoUnlock unit binds the raw partition, the mount unit is built on
\* the mapped device without a type, and the role has these two descriptors.
TwoDescriptors(id) ==
    /\ DescriptorsOf(id) =
          {CryptsetupUnit(id), unit_name_from_path(<<id>>, ".mount")}
    /\ Written(CryptsetupUnit(id))
    /\ files[CryptsetupUnit(id)].kind = "cryptsetup"
    /\ files[CryptsetupUnit(id)].what = WinnerOf(id)
    /\ Written(unit_name_from_path(<<id>>, ".mount"))
    /\ files[unit_name_from_path(<<id>>, ".mount")].what = MapperDevice(id)
    /\ files[unit_name_from_path(<<id>>, ".mount")].fstype = NULLSTR

\* An edge between the two descriptors themselves: a Before= of the
\* CryptoUnlock unit naming the mount unit, or a .requires/.wants link of one
\* to the other.
DirectEdge(id) ==
    \/ files[CryptsetupUnit(id)].before = unit_name_from_path(<<id>>, ".mount")
    \/ files[unit_name_from_path(<<id>>, ".mount")].before = CryptsetupUnit(id)
    \/ \E how \in {".requires", ".wants"} :
          \/ Present(Edge(unit_name_from_path(<<id>>, ".mount"), how,
                          CryptsetupUnit(id)))
          \/ Present(Edge(CryptsetupUnit(id), how,
                          unit_name_from_path(<<id>>, ".mount")))

\* C11 as stated: an encrypted /home or /srv yields the CryptoUnlock and the
\* Mount descriptor, and an ordering edge from the first to the second.
C11_Original_EdgeFromUnlockToMount ==
    \A id \in {"home", "srv"} :
        LuksEmitted(id) => (TwoDescriptors(id) /\ DirectEdge(id))

\* C11 amended: an encrypted /home or /srv yields the CryptoUnlock and the
\* Mount descriptor; no edge joins the two, the order comes through the mapped
\* device: the mount unit is built on it, and its device unit requires the
\* CryptoUnlock unit.
C11_UnlockThenMountThroughMappedDevice ==
    \A id \in {"home", "srv"} :
        LuksEmitted(id) =>
            /\ TwoDescriptors(id)
            /\ ~DirectEdge(id)
            /\ Present(Edge(<<"dev-mapper-", id, ".device">>, ".requires",
                            CryptsetupUnit(id)))
            /\ files[CryptsetupUnit(id)].before =
                  <<"umount.target", "cryptsetup.target">>

\* The pass is over without failure; /home was an encrypted container and
\* /srv a plain one, and both were emitted.
C11_Witness ==
    /\ pc = "done"
    /\ failed = {}
    /\ LuksEmitted("home")
    /\ Present(CryptsetupUnit("home"))
    /\ MountsAt(<<"srv">>) # {}
    /\ ~Present(CryptsetupUnit("srv"))

\* ------------------------------------------------------------------ C12

\* The positions of the root= entries that carry a value.
RootEntries ==
    {i \in DOMAIN env.cmdline :
        env.cmdline[i].key = "root" /\ env.cmdline[i].value # NULLSTR}

\* The Root mount unit, at / or, in the initrd, at /sysroot.
RootUnit ==
    unit_name_from_path(IF env.initrd THEN <<"sysroot">> ELSE <<>>, ".mount")

\* The command line has been parsed.
Parsed == pc # "main"

\* C12 as stated: some root= entry other than gpt-auto on the command line
\* disables the root role, and no Root mount unit is emitted.
C12_Original_AnyRootOverrideDisables ==
    (Parsed /\ \E i \in RootEntries : env.cmdline[i].value # "gpt-auto") =>
        /\ ~args.root_enabled
        /\ AttemptedFor("root") = {}
        /\ ~Present(RootUnit)

\* C12 amended: the last root= entry decides.  The root role is disabled, and
\* no Root mount unit is emitted, exactly when the last root= entry that
\* carries a value is not gpt-auto; rw and ro entries have no part in it.
C12_LastRootEntryDecides ==
    Parsed =>
        /\ args.root_enabled =
              (RootEntries = {}
               \/ env.cmdline[CHOOSE i \in RootEntries :
                                 \A j \in RootEntries : j <= i].value
                  = "gpt-auto")
        /\ ~args.root_enabled =>
              (AttemptedFor("root") = {} /\ ~Present(RootUnit))
        /\ (args.root_enabled /\ args.enabled /\ pc # "root") =>
              Written(RootUnit)

\* The pass is over; a root= naming a device came last and no Root mount unit
\* was written, although a root=gpt-auto came before it.
C12_Witness ==
    /\ pc = "done"
    /\ args.enabled
    /\ \E i \in RootEntries, j \in RootEntries :
          /\ i < j
          /\ env.cmdline[i].value = "gpt-auto"
          /\ env.cmdline[j].value # "gpt-auto"
          /\ \A k \in RootEntries : k <= j
    /\ ~Present(RootUnit)
    /\ MountsAt(<<"home">>) # {}

\* ------------------------------------------------------------------ C13

\* The generator was started with an argument count other than zero or three
\* (argv[0] counted in argc) and main() has taken its first step.
BadArgcSeen == env.argc \notin {1, 4} /\ pc # "main"

\* Nothing was probed and nothing written.
NothingDone ==
    /\ files = files0
    /\ attempted = {} /\ failed = {}
    /\ todo = {} /\ boot = NULL /\ home = NULL /\ srv = NULL
    /\ args = DefaultArgs

\* C13 as stated: a wrong argument count ends the run at once, nothing probed
\* or written, with a non-success status that is not the status of a failed
\* pass.
C13_Original_UsageStatusDistinct ==
    BadArgcSeen =>
        /\ pc = "usage"
        /\ NothingDone
        /\ exit_status # EXIT_SUCCESS
        /\ exit_status # EXIT_FAILURE

\* C13 amended: a wrong argument count ends the run at once, nothing probed or
\* written, with EXIT_FAILURE, the very status a pass ends with when a
\* role-processing step failed.
C13_UsageStatusIsGenericFailure ==
    /\ BadArgcSeen =>
          /\ pc = "usage"
          /\ NothingDone
          /\ exit_status = EXIT_FAILURE
    /\ (pc = "done" /\ main_r < 0) => exit_status = EXIT_FAILURE
    /\ (pc = "done" /\ main_r >= 0) => exit_status = EXIT_SUCCESS

\* The generator was started with two arguments and has ended.
C13_Witness ==
    /\ env.argc = 3
    /\ pc = "usage"
    /\ exit_status = EXIT_FAILURE
    /\ files = EmptyDir

\* ------------------------------------------------------------------ C14

\* The checks of add_boot() that come before the firmware variable is used:
\* one of them ends the call with 0.
BootSkippedEarly ==
    \/ ~env.efi
    \/ env.fstab_boot
    \/ path_is_busy(env.path["boot"])
    \/ env.loader = -ENOENT

\* The probe of the ESP says nothing definite, or finds an ESP that has a
\* type and is not the booted FAT partition.
BootSkippedByProbe ==
    /\ ~BootSkippedEarly /\ env.loader >= 0
    /\ \/ parts[boot_nr].probe \in {-2, 1}
       \/ /\ parts[boot_nr].probe = 0
          /\ parts[boot_nr].fstype # NULLSTR
          /\ ~EspMatches(parts[boot_nr])

\* The firmware variable cannot be read, or the probe of the ESP fails.
BootReadFails ==
    /\ ~BootSkippedEarly
    /\ \/ env.loader < 0
       \/ parts[boot_nr].probe \notin {-2, 1, 0}

\* Every validation step of add_boot() passes.
BootValid ==
    /\ ~BootSkippedEarly /\ env.loader >= 0
    /\ EspMatches(parts[boot_nr])

\* add_boot() was called (memory did not run out in the loop) and the process
\* has left it.
BootCalled == AfterAddBoot /\ "oom" \notin failed

\* C14 as stated: whichever validation step does not pass, add_boot() returns
\* without failure; the Boot role fails only when emission was attempted.
C14_Original_EveryValidationFailureSkips ==
    BootCalled =>
        /\ ~BootValid => (pc # "crashed" /\ "boot" \notin failed)
        /\ "boot" \in failed => AttemptedFor("boot") # {}

\* C14 amended: add_boot() skips without failure when the boot is not an EFI
\* boot, /boot is in fstab or busy, the firmware does not know the boot
\* partition, the probe is uncertain or finds nothing, or the ESP has a type
\* and is not the booted FAT partition.  An unreadable firmware variable, a
\* prober that cannot be set up and a failing probe are hard failures of the
\* Boot role, and the pass ends with failure status.
C14_SkipsAndHardFailuresOfBoot ==
    BootCalled =>
        /\ BootSkippedEarly =>
              /\ pc # "crashed" /\ "boot" \notin failed
              /\ UnitsAt(<<"boot">>) = {}
        /\ BootSkippedByProbe =>
              /\ pc # "crashed"
              /\ UnitsAt(<<"boot">>) = {}
              /\ budget = MaxFaults => "boot" \notin failed
        /\ BootReadFails =>
              /\ "boot" \in failed
              /\ AttemptedFor("boot") = {}
              /\ UnitsAt(<<"boot">>) = {}
              /\ pc = "done" => exit_status = EXIT_FAILURE
        /\ ("boot" \in failed /\ AttemptedFor("boot") = {}) =>
              (BootReadFails \/ (~BootSkippedEarly /\ budget < MaxFaults))

\* The pass is over: the firmware names the boot partition, the probe of the
\* ESP failed, nothing else did, and the exit status is failure.
C14_Witness ==
    /\ pc = "done"
    /\ BootCalled
    /\ ~BootSkippedEarly /\ env.loader >= 0
    /\ parts[boot_nr].probe = -1
    /\ failed = {"boot"}
    /\ budget = MaxFaults
    /\ exit_status = EXIT_FAILURE

\* ------------------------------------------------------------------ C15

BootMountUnit == unit_name_from_path(<<"boot">>, ".mount")
BootAutomountUnit == unit_name_from_path(<<"boot">>, ".automount")

\* Every validation step passed and the emission of /boot returned without
\* failure.
BootEmitted ==
    /\ BootCalled /\ BootValid
    /\ AttemptedFor("boot") # {}
    /\ "boot" \notin failed

\* The automount unit of /boot with its idle timeout, over a read-write FAT
\* mount of the ESP with umask=0077 that nothing requires or wants.
OnDemandBoot ==
    /\ Written(BootAutomountUnit)
    /\ files[BootAutomountUnit].kind = "automount"
    /\ files[BootAutomountUnit].where = <<"boot">>
    /\ files[BootAutomountUnit].timeout = 120
    /\ Written(BootMountUnit)
    /\ files[BootMountUnit].kind = "mount"
    /\ files[BootMountUnit].what = boot
    /\ files[BootMountUnit].fstype = "vfat"
    /\ files[BootMountUnit].options = <<"umask=0077", "noauto", "rw">>
    /\ \A l \in UnitsOfKind("link") : files[l].target # BootMountUnit

\* One of the two /boot units says Before=local-fs.target.
BootOrderedBeforeLocalFs ==
    \/ files[BootAutomountUnit].before = SPECIAL_LOCAL_FS_TARGET
    \/ files[BootMountUnit].before = SPECIAL_LOCAL_FS_TARGET

\* C15 as stated: a validated ESP gives an automount unit for /boot with idle
\* timeout 120 over a read-write mount with umask=0077 that nothing pulls in,
\* and the Boot activation is ordered before local-fs.target.
C15_Original_BootOrderedBeforeMilestone ==
    BootEmitted => (OnDemandBoot /\ BootOrderedBeforeLocalFs)

\* C15 amended: a validated ESP gives an automount unit for /boot with idle
\* timeout 120 over a read-write mount with umask=0077 that nothing pulls in;
\* local-fs.target wants the automount unit, and neither unit is ordered
\* before local-fs.target.
C15_BootOnDemandWantedByMilestone ==
    BootEmitted =>
        /\ OnDemandBoot
        /\ Present(Edge(SPECIAL_LOCAL_FS_TARGET, ".wants", BootAutomountUnit))
        /\ files[Edge(SPECIAL_LOCAL_FS_TARGET, ".wants",
                      BootAutomountUnit)].target = BootAutomountUnit
        /\ files[BootAutomountUnit].before = NULL
        /\ files[BootMountUnit].before = NULL

\* The pass is over without failure and /boot was emitted from the booted ESP.
C15_Witness ==
    /\ pc = "done"
    /\ failed = {}
    /\ BootEmitted
    /\ Present(BootAutomountUnit)
    /\ exit_status = EXIT_SUCCESS

\* ------------------------------------------------------------------ C16

\* The links of swap.target.wants/.
SwapEdges ==
    {l \in UnitsOfKind("link") :
        Len(l) > 3 /\ SubSeq(l, 1, 3) = SPECIAL_SWAP_TARGET \o <<".wants">>}

\* C16: with a swap entry in fstab no swap unit and no swap.target edge is
\* written for any swap partition, no emission is attempted for one, the Swap
\* role never fails, and the exit status is failure only when another step
\* failed.
C16_FstabSwapSuppressesSwapRole ==
    env.fstab_swap > 0 =>
        /\ UnitsOfKind("swap") = {}
        /\ SwapEdges = {}
        /\ \A f \in DOMAIN files : files[f].what \notin
              {DevNode(n) : n \in OfType(GPT_SWAP)}
        /\ AttemptedFor("swap") = {}
        /\ "swap" \notin failed
        /\ pc = "done" => (exit_status = EXIT_FAILURE <=> failed # {})

\* The pass is over with success: fstab has a swap entry, the disk two
\* eligible swap partitions, and /home was emitted.
C16_Witness ==
    /\ pc = "done"
    /\ env.fstab_swap > 0
    /\ Cardinality(SwapCandidates) >= 2
    /\ UnitsOfKind("swap") = {}
    /\ MountsAt(<<"home">>) # {}
    /\ exit_status = EXIT_SUCCESS

====
